---- MODULE Spec2Model ----
(***************************************************************************)
(* Model of the Advanced Subdomain Discovery Service (src/main.py):        *)
(* the request validators, the five source adapters, the semaphore-gated   *)
(* DNS fan-out and the orchestrator behind POST /discover.                 *)
(*                                                                         *)
(* Strings are TLA+ strings; a character is a string of length 1.          *)
(***************************************************************************)
EXTENDS Integers, Sequences, FiniteSets, TLC

VARIABLES
    raw,        \* validate_domain: the raw input string v
    vstate,     \* validate_domain: "input", "accepted" or "rejected"
    vout,       \* validate_domain: the returned value (v.lower()) once accepted
    fanSize,    \* dns_discovery fan-out: len(self.common_subdomains)
    fanPending, \* check_subdomain tasks that have not entered "async with semaphore"
    fanInflight,\* dns_lookup invocations in flight
    fanDone,    \* check_subdomain tasks that have returned
    fanSem,     \* the semaphore's value (free permits)
    fanPhase,   \* "idle", "gathering" (awaiting asyncio.gather) or "returned"
    dnsCalls,   \* per request served concurrently: its dns_discovery call [state, pending, inflight, sem]
    req,        \* POST /discover: the request body [domain, given, methods]
    phase,      \* "idle", "received", "rejected", "validated", "running", "returned"
    domain,     \* request.domain after validation
    methods,    \* request.methods after validation
    tasks,      \* discover_subdomains: the method names of the tasks list, in order
    idx,        \* discover_subdomains: position of "for method_name, task in tasks"
    astatus,    \* per method: "none", "created", "inflight", "finished", "recorded"
    probe,      \* dns_discovery: per wordlist entry "none", "created", "inflight", "done"
    presults,   \* dns_discovery: per wordlist entry, what its check_subdomain returned
    poutcome,   \* dns_discovery: per wordlist entry, how its resolver call ended (until recorded)
    porder,     \* dns_discovery: the wordlist positions in the order their probes ended (until recorded)
    sem,        \* dns_discovery: the semaphore's value
    crtUrl,     \* certificate_transparency_discovery: position of "for url in urls"
    found,      \* the running adapter's found_subdomains
    araised,    \* whether the running adapter ended by raising
    areturned,  \* per method: the set its adapter returned (history)
    getFailed,  \* per method: how many of its GETs ended in a failure (history)
    results_by_method, \* discover_subdomains: results_by_method
    all_subdomains,    \* discover_subdomains: all_subdomains
    report,     \* the SubdomainResponse returned to the caller
    ioCalls,    \* outbound calls issued so far (DNS resolutions and HTTP GETs)
    call,       \* one adapter call on its own: [method, domain, answers]
    cstate,     \* that call: "idle", "called" or "returned"
    cresult     \* that call: what the adapter handed back, [raised, found]

validatorVars == <<raw, vstate, vout>>

fanVars == <<fanSize, fanPending, fanInflight, fanDone, fanSem, fanPhase, dnsCalls>>

callVars == <<call, cstate, cresult>>

reqVars == <<req, phase, domain, methods, tasks, idx, astatus, probe, presults,
             poutcome, porder, sem, crtUrl, found, araised, areturned, getFailed, results_by_method,
             all_subdomains, report, ioCalls>>

vars == <<raw, vstate, vout, fanSize, fanPending, fanInflight, fanDone, fanSem, fanPhase,
          dnsCalls, req, phase, domain, methods, tasks, idx, astatus, probe, presults,
          poutcome, porder, sem,
          crtUrl, found, araised, areturned, getFailed, results_by_method,
          all_subdomains, report, ioCalls, call, cstate, cresult>>

----------------------------------------------------------------------------
(* Python str primitives used by the program *)

Char(s, i) == SubSeq(s, i, i)

\* The characters the model uses, in code-point order (str comparison order).
Ascii == "\n *,-.0123456789ABCDEFGHIJKLMNOPQRSTUVWXYZabcdefghijklmnopqrstuvwxyz"

Ord(c) == CHOOSE i \in 1..Len(Ascii) : Char(Ascii, i) = c

Upper26 == "ABCDEFGHIJKLMNOPQRSTUVWXYZ"
Lower26 == "abcdefghijklmnopqrstuvwxyz"
Digits10 == "0123456789"

Contains(s, c) == \E i \in 1..Len(s) : Char(s, i) = c

\* str.lower() on one character
LowerChar(c) ==
    IF Contains(Upper26, c)
    THEN Char(Lower26, CHOOSE i \in 1..26 : Char(Upper26, i) = c)
    ELSE c

RECURSIVE Lower(_)
\* str.lower(), by halves so that the recursion stays shallow on long strings
Lower(s) ==
    IF s = "" THEN ""
    ELSE IF Len(s) = 1 THEN LowerChar(s)
    ELSE LET h == Len(s) \div 2
         IN  Lower(SubSeq(s, 1, h)) \o Lower(SubSeq(s, h + 1, Len(s)))

\* str.endswith(suffix)
EndsWith(s, suffix) ==
    /\ Len(s) >= Len(suffix)
    /\ SubSeq(s, Len(s) - Len(suffix) + 1, Len(s)) = suffix

\* str.split(sep) for a one-character separator: "a..b" gives <<"a", "", "b">>
Split(s, sep) ==
    LET cuts == {0} \cup {i \in 1..Len(s) : Char(s, i) = sep} \cup {Len(s) + 1}
        Cut(j) == CHOOSE p \in cuts : Cardinality({q \in cuts : q < p}) = j - 1
    IN  [j \in 1..(Cardinality(cuts) - 1) |-> SubSeq(s, Cut(j) + 1, Cut(j + 1) - 1)]

IsSpace(c) == c \in {" ", "\n"}

\* str.strip()
Strip(s) ==
    LET kept == {i \in 1..Len(s) : ~IsSpace(Char(s, i))}
    IN  IF kept = {} THEN ""
        ELSE SubSeq(s, CHOOSE i \in kept : \A j \in kept : i <= j,
                       CHOOSE i \in kept : \A j \in kept : i >= j)

\* a < b on str: lexicographic by code point
StrLess(a, b) ==
    LET n == IF Len(a) < Len(b) THEN Len(a) ELSE Len(b)
        diff == {i \in 1..n : Char(a, i) # Char(b, i)}
    IN  IF diff = {} THEN Len(a) < Len(b)
        ELSE LET i == CHOOSE d \in diff : \A e \in diff : d <= e
             IN  Ord(Char(a, i)) < Ord(Char(b, i))

RECURSIVE SortedList(_)
\* sorted(list(S)) for a set of str
SortedList(S) ==
    IF S = {} THEN <<>>
    ELSE LET m == CHOOSE x \in S : \A y \in S : x = y \/ StrLess(x, y)
         IN  <<m>> \o SortedList(S \ {m})

RECURSIVE Rep(_, _)
\* c * n
Rep(c, n) ==
    IF n = 0 THEN ""
    ELSE LET h == Rep(c, n \div 2)
         IN  IF n % 2 = 0 THEN h \o h ELSE h \o h \o c

Range(seq) == {seq[i] : i \in 1..Len(seq)}

----------------------------------------------------------------------------
(* DomainRequest.validate_domain *)

\* {0,61} in domain_pattern: the longest middle part of a label
LabelMiddleMax == 61

\* [a-zA-Z0-9]
IsAlnum(c) == Contains(Upper26, c) \/ Contains(Lower26, c) \/ Contains(Digits10, c)

\* [a-zA-Z0-9\-]
IsLabelChar(c) == IsAlnum(c) \/ c = "-"

\* [a-zA-Z0-9]([a-zA-Z0-9\-]{0,61}[a-zA-Z0-9])?
LabelMatches(l) ==
    /\ Len(l) >= 1
    /\ Len(l) <= LabelMiddleMax + 2
    /\ IsAlnum(Char(l, 1))
    /\ IsAlnum(Char(l, Len(l)))
    /\ \A i \in 1..Len(l) : IsLabelChar(Char(l, i))

\* label(\.label)* against the whole of s
LabelsMatch(s) ==
    LET labels == Split(s, ".")
    IN  \A i \in 1..Len(labels) : LabelMatches(labels[i])

\* re.match(domain_pattern, v): the pattern is anchored by ^ and $, and
\* Python's $ also matches just before a newline that ends the string.
DomainPatternMatches(v) ==
    \/ LabelsMatch(v)
    \/ /\ Len(v) >= 1
       /\ Char(v, Len(v)) = "\n"
       /\ LabelsMatch(SubSeq(v, 1, Len(v) - 1))

\* Faulty variant: the accepted value is returned as given, not lowercased
validate_domain_keeps_case(v) ==
    IF ~DomainPatternMatches(v)
    THEN [ok |-> FALSE, value |-> ""]
    ELSE [ok |-> TRUE, value |-> v]

\* validate_domain(v): [ok |-> FALSE] stands for raise ValueError
validate_domain(v) ==
    IF ~DomainPatternMatches(v)
    THEN [ok |-> FALSE, value |-> ""]
    ELSE [ok |-> TRUE, value |-> Lower(v)]

----------------------------------------------------------------------------
(* DomainRequest.validate_methods *)

valid_methods == <<"dns", "crt", "hackertarget", "threatcrowd", "virustotal">>

\* Faulty variant: the default is the wordlist method alone
DefaultMethodsDnsOnly == <<"dns">>

\* methods: Optional[List[str]] = ["dns", "crt"]
DefaultMethods == <<"dns", "crt">>

\* Faulty variant: only the first requested method is checked against valid_methods
validate_methods_first_only(v) ==
    IF v # <<>> /\ v[1] \notin Range(valid_methods)
    THEN [ok |-> FALSE, value |-> <<>>]
    ELSE [ok |-> TRUE, value |-> IF v = <<>> THEN DefaultMethods ELSE v]

\* validate_methods(v); v = <<>> stands for None and for []: both are falsy.
\* [ok |-> FALSE] stands for raise ValueError.
validate_methods(v) ==
    IF \E i \in 1..Len(v) : v[i] \notin Range(valid_methods)
    THEN [ok |-> FALSE, value |-> <<>>]
    ELSE [ok |-> TRUE, value |-> IF v = <<>> THEN DefaultMethods ELSE v]

----------------------------------------------------------------------------
(* The source adapters, as functions of the validated domain and of what    *)
(* the external source answered.                                            *)
(*                                                                          *)
(* An HTTP answer is a record [kind, text, items]:                          *)
(*   "transport_error"  session.get raised (aiohttp.ClientError)            *)
(*   "timeout"          the ClientTimeout fired (asyncio.TimeoutError)      *)
(*   "bad_status"       response.status != 200                              *)
(*   "unparseable"      status 200, response.json()/text() raised           *)
(*   "json_not_object"  status 200, JSON whose root is not an object        *)
(*   "text"             status 200, body text                               *)
(*   "json"             status 200, items: the parsed entries               *)
(* A parsed JSON entry is [t, v]: t = "str" with the string v, or           *)
(* t = "array" for a non-empty JSON array where a string was expected.      *)

Answer(kind, text, items) == [kind |-> kind, text |-> text, items |-> items]

NoAnswer == Answer("none", "", <<>>)

FailureKinds == {"transport_error", "timeout", "bad_status", "unparseable"}

JStr(v) == [t |-> "str", v |-> v]
JArray == [t |-> "array", v |-> ""]

\* What an adapter hands to its caller: a set, or an exception
Returned(acc) == [raised |-> FALSE, found |-> acc]

\* f"{subdomain}.{domain}"
FullDomain(subdomain, dom) == subdomain \o "." \o dom

\* self.common_subdomains, cut to its first entries
common_subdomains == <<"www", "mail">>

\* Faulty variant: only an unexpected exception counts as "not present"
dns_lookup_failure_is_present(outcome) == outcome # "gaierror"

\* dns_lookup's return value for what socket.gethostbyname did in the executor:
\* "resolved", "gaierror" (no such name / resolution failure), "exception"
dns_lookup(outcome) == outcome = "resolved"

\* check_subdomain's return value (None is the empty string here: both falsy)
check_subdomain(subdomain, dom, outcome) ==
    IF dns_lookup(outcome) THEN FullDomain(subdomain, dom) ELSE ""

\* Faulty variant: each insert replaces the set, so only the last one survives
dns_collect_overwrites(results) ==
    LET hits == {j \in 1..Len(results) : results[j] # ""}
    IN  IF hits = {} THEN {}
        ELSE {results[CHOOSE j \in hits : \A k \in hits : k <= j]}

\* dns_discovery after asyncio.gather: results[i] for wordlist entry i
dns_collect(results) == {results[i] : i \in {j \in 1..Len(results) : results[j] # ""}}

\* Faulty variant: the filter without its wildcard test
CrtKeepsWildcards(name, dom) ==
    /\ EndsWith(name, "." \o dom)
    /\ name # dom
    /\ Len(Split(name, ".")) >= 2

\* The filter of certificate_transparency_discovery on one name
CrtKeeps(name, dom) ==
    /\ EndsWith(name, "." \o dom)
    /\ ~Contains(name, "*")
    /\ name # dom
    /\ Len(Split(name, ".")) >= 2

\* The names of one certificate record: name_value.split('\n'), each stripped
\* and lowercased, then filtered
CrtNames(name_value, dom) ==
    LET names == Split(name_value, "\n")
    IN  {n \in {Lower(Strip(names[i])) : i \in 1..Len(names)} : CrtKeeps(n, dom)}

RECURSIVE CrtLoop(_, _, _)
\* "for cert in data": a record that is no object makes cert.get raise, which
\* ends this query variant with what was found so far
CrtLoop(certs, dom, acc) ==
    IF certs = <<>> THEN acc
    ELSE IF Head(certs).t # "object" THEN acc
    ELSE CrtLoop(Tail(certs), dom, acc \cup CrtNames(Head(certs).v, dom))

\* One pass of "for url in urls" of certificate_transparency_discovery:
\* found_subdomains after the answer to one query variant
crt_variant(dom, ans, acc) ==
    IF ans.kind = "json" THEN CrtLoop(ans.items, dom, acc) ELSE acc

\* Faulty variant: a query variant that fails ends the adapter
certificate_transparency_discovery_stops(dom, answers) ==
    IF answers[1].kind # "json" THEN Returned({})
    ELSE Returned(crt_variant(dom, answers[2], crt_variant(dom, answers[1], {})))

\* certificate_transparency_discovery on the answers to its two GETs, in the
\* order of urls; the try/except around each GET keeps found_subdomains
certificate_transparency_discovery(dom, answers) ==
    Returned(crt_variant(dom, answers[2], crt_variant(dom, answers[1], {})))

\* hackertarget_discovery on the answer to its GET
hackertarget_discovery(dom, ans) ==
    IF ans.kind # "text" THEN Returned({})
    ELSE LET lines == Split(Strip(ans.text), "\n")
             hosts == {Strip(Split(lines[i], ",")[1]) :
                          i \in {j \in 1..Len(lines) : Contains(lines[j], ",")}}
         IN  Returned({h \in hosts : EndsWith(h, "." \o dom) /\ h # dom})

RECURSIVE TcLoop(_, _, _)
\* "for subdomain in subdomains" of threatcrowd_discovery: a non-empty array is
\* truthy and differs from domain, and found_subdomains.add raises on it
\* (unhashable), which ends the loop with what was found so far
TcLoop(items, dom, acc) ==
    IF items = <<>> THEN acc
    ELSE LET it == Head(items)
         IN  IF it.t # "str" THEN acc
             ELSE IF it.v # "" /\ it.v # dom
                  THEN TcLoop(Tail(items), dom, acc \cup {it.v})
                  ELSE TcLoop(Tail(items), dom, acc)

\* Faulty variant: an error while the entries are processed discards what was found
threatcrowd_discovery_discards(dom, ans) ==
    IF ans.kind = "json" /\ \A i \in 1..Len(ans.items) : ans.items[i].t = "str"
    THEN Returned(TcLoop(ans.items, dom, {}))
    ELSE Returned({})

\* threatcrowd_discovery on the answer to its GET
threatcrowd_discovery(dom, ans) ==
    IF ans.kind = "json" THEN Returned(TcLoop(ans.items, dom, {}))
    ELSE Returned({})

RECURSIVE VtLoop(_, _, _)
\* "for subdomain in subdomains" of virustotal_discovery: a non-empty array is
\* truthy and has no endswith, which ends the loop with what was found so far
VtLoop(items, dom, acc) ==
    IF items = <<>> THEN acc
    ELSE LET it == Head(items)
         IN  IF it.t # "str" THEN acc
             ELSE IF it.v # "" /\ EndsWith(it.v, "." \o dom)
                  THEN VtLoop(Tail(items), dom, acc \cup {it.v})
                  ELSE VtLoop(Tail(items), dom, acc)

\* virustotal_discovery on the answer to its GET
virustotal_discovery(dom, ans) ==
    IF ans.kind = "json" THEN Returned(VtLoop(ans.items, dom, {}))
    ELSE Returned({})

----------------------------------------------------------------------------
(* Specification of the validator as a pure function over bounded inputs *)

MaxInputLen == 3

InputAlphabet == {"a", "B", "0", "-", ".", "*", "\n"}

RECURSIVE StringsUpTo(_)
StringsUpTo(n) ==
    IF n = 0 THEN {""}
    ELSE LET shorter == StringsUpTo(n - 1)
         IN  shorter \cup {s \o c : s \in shorter, c \in InputAlphabet}

\* Inputs at the length limits of the DNS name syntax
LongInputs ==
    LET l63 == Rep("a", 63)
    IN  { l63,
          Rep("a", 64),
          l63 \o ".B",
          Rep("a", 64) \o ".b",
          l63 \o "." \o l63 \o "." \o l63 \o "." \o Rep("a", 61),
          l63 \o "." \o l63 \o "." \o l63 \o "." \o Rep("a", 62) }

ValidatorInputs == StringsUpTo(MaxInputLen) \cup LongInputs

ValidatorIdle ==
    /\ raw = ""
    /\ vstate = "idle"
    /\ vout = ""

FanIdle ==
    /\ fanSize = 0
    /\ fanPending = 0
    /\ fanInflight = 0
    /\ fanDone = 0
    /\ fanSem = 0
    /\ fanPhase = "idle"
    /\ dnsCalls = <<>>

Methods == Range(valid_methods)

NoReport ==
    [domain |-> "", subdomains |-> <<>>, total_found |-> 0,
     methods_used |-> <<>>, results_by_method |-> <<>>]

\* The request variables before a request has been received
RequestFresh ==
    /\ domain = ""
    /\ methods = <<>>
    /\ tasks = <<>>
    /\ idx = 0
    /\ astatus = [m \in Methods |-> "none"]
    /\ probe = [i \in 1..Len(common_subdomains) |-> "none"]
    /\ presults = [i \in 1..Len(common_subdomains) |-> ""]
    /\ poutcome = [i \in 1..Len(common_subdomains) |-> "none"]
    /\ porder = <<>>
    /\ sem = 0
    /\ crtUrl = 0
    /\ found = {}
    /\ araised = FALSE
    /\ areturned = [m \in Methods |-> {}]
    /\ getFailed = [m \in Methods |-> 0]
    /\ results_by_method = <<>>
    /\ all_subdomains = {}
    /\ report = NoReport
    /\ ioCalls = 0

CallIdle ==
    /\ call = [method |-> "", domain |-> "", answers |-> <<>>]
    /\ cstate = "idle"
    /\ cresult = Returned({})

RequestIdle ==
    /\ req = [domain |-> "", given |-> FALSE, methods |-> <<>>]
    /\ phase = "idle"
    /\ RequestFresh

InitValidate ==
    /\ raw \in ValidatorInputs
    /\ vstate = "input"
    /\ vout = ""
    /\ FanIdle
    /\ RequestIdle
    /\ CallIdle

\* One call of validate_domain on the raw input
Validate ==
    /\ vstate = "input"
    /\ LET r == validate_domain(raw)
       IN  /\ vstate' = IF r.ok THEN "accepted" ELSE "rejected"
           /\ vout' = r.value
    /\ UNCHANGED <<raw, fanVars, reqVars, callVars>>

NextValidate == Validate

SpecValidate == InitValidate /\ [][NextValidate]_vars

\* A domain name the DNS syntax rules of the specification forbid: empty, longer
\* than 253 characters, a label that is empty, longer than 63 characters or
\* starts or ends with a hyphen, or a character outside [a-zA-Z0-9.-].
ViolatesDomainRules(v) ==
    LET labels == Split(v, ".")
    IN  \/ v = ""
        \/ Len(v) > 253
        \/ \E i \in 1..Len(labels) :
              \/ labels[i] = ""
              \/ Len(labels[i]) > 63
              \/ Char(labels[i], 1) = "-"
              \/ Char(labels[i], Len(labels[i])) = "-"
        \/ \E i \in 1..Len(v) : ~(IsLabelChar(Char(v, i)) \/ Char(v, i) = ".")

\* C10: validate_domain rejects every input that is empty, longer than 253
\* characters, has an empty / over-long / hyphen-edged label or a character
\* outside [a-zA-Z0-9.-] (a trailing newline included), and returns every
\* accepted input lowercased.
C10_ValidateDomainRejects ==
    vstate \in {"accepted", "rejected"} =>
        /\ ViolatesDomainRules(raw) => vstate = "rejected"
        /\ vstate = "accepted" => vout = Lower(raw)

\* C17: validation is idempotent under case normalization: for every accepted
\* input x, validating the validated value gives the same value again, and
\* validating lowercase(x) gives what validating x gives.
C17_ValidateIdempotent ==
    vstate = "accepted" =>
        /\ validate_domain(vout) = [ok |-> TRUE, value |-> vout]
        /\ validate_domain(Lower(raw)) = validate_domain(raw)

\* An accepted input with an upper-case letter.
C17_Witness ==
    /\ vstate = "accepted"
    /\ raw # vout
    /\ \E i \in 1..Len(raw) : Contains(Upper26, Char(raw, i))

----------------------------------------------------------------------------
(* dns_discovery: the semaphore-gated fan-out of check_subdomain tasks.     *)
(* The tasks are interchangeable with respect to the semaphore, so this     *)
(* specification counts them; the wordlist length is an input.              *)

\* asyncio.Semaphore(50)
SemaphoreLimit == 50

MaxWordlist == 52

\* Faulty variant: the semaphore admits one task more than it has permits
SemaphoreOffByOne(value) == value >= 0

\* "async with semaphore" can enter: a permit is free
SemaphoreCanAcquire(value) == value > 0

InitFan ==
    /\ ValidatorIdle
    /\ fanSize \in 0..MaxWordlist
    /\ fanPending = fanSize
    /\ fanInflight = 0
    /\ fanDone = 0
    /\ fanSem = SemaphoreLimit
    /\ fanPhase = "gathering"
    /\ dnsCalls = <<>>
    /\ RequestIdle
    /\ CallIdle

\* A check_subdomain task enters "async with semaphore" and calls dns_lookup
FanAcquire ==
    /\ fanPhase = "gathering"
    /\ fanPending > 0
    /\ SemaphoreCanAcquire(fanSem)
    /\ fanSem' = fanSem - 1
    /\ fanPending' = fanPending - 1
    /\ fanInflight' = fanInflight + 1
    /\ UNCHANGED <<fanSize, fanDone, fanPhase, dnsCalls, validatorVars, reqVars, callVars>>

\* Faulty variant: the probe ends and its permit is not given back
FanReleaseLeaks ==
    /\ fanPhase = "gathering"
    /\ fanInflight > 0
    /\ fanInflight' = fanInflight - 1
    /\ fanDone' = fanDone + 1
    /\ UNCHANGED <<fanSize, fanPending, fanSem, fanPhase, dnsCalls, validatorVars, reqVars, callVars>>

\* dns_lookup returns (True or False; it catches every exception), the task
\* leaves "async with semaphore", whose exit releases the permit on a return
\* and on an exception alike, and returns
FanRelease ==
    /\ fanPhase = "gathering"
    /\ fanInflight > 0
    /\ fanInflight' = fanInflight - 1
    /\ fanSem' = fanSem + 1
    /\ fanDone' = fanDone + 1
    /\ UNCHANGED <<fanSize, fanPending, fanPhase, dnsCalls, validatorVars, reqVars, callVars>>

\* asyncio.gather returns once every task has returned; dns_discovery returns
FanGathered ==
    /\ fanPhase = "gathering"
    /\ fanDone = fanSize
    /\ fanPhase' = "returned"
    /\ UNCHANGED <<fanSize, fanPending, fanInflight, fanDone, fanSem, dnsCalls, validatorVars, reqVars, callVars>>

NextFan == FanAcquire \/ FanRelease \/ FanGathered

SpecFan == InitFan /\ [][NextFan]_vars

\* The scheduling the claim about termination assumes: the event loop runs
\* every task that is ready, and every individual probe terminates.
FairSpecFan ==
    /\ InitFan
    /\ [][NextFan]_vars
    /\ WF_vars(FanAcquire)
    /\ WF_vars(FanRelease)
    /\ WF_vars(FanGathered)

\* C1: within one call of dns_discovery, whatever the wordlist length, the
\* number of dns_lookup invocations in flight never exceeds the limit of 50.
C1_ProbesBounded == fanInflight <= SemaphoreLimit

\* The limit is reached while further tasks still wait for a permit.
C1_Witness ==
    /\ fanSize > SemaphoreLimit
    /\ fanInflight = SemaphoreLimit
    /\ fanPending > 0

\* C20: every acquired permit is released when its probe ends, so the free
\* permits and the probes in flight always add up to the limit; provided
\* each probe terminates, no task waits for ever for a permit: every label,
\* also with more labels than permits, is probed exactly once and
\* dns_discovery returns with no probe in flight.
C20_PermitsReleased ==
    /\ [](fanSem + fanInflight = SemaphoreLimit)
    /\ [](fanPending + fanInflight + fanDone = fanSize)
    /\ [](fanPhase = "returned" =>
             /\ fanInflight = 0
             /\ fanPending = 0
             /\ fanDone = fanSize
             /\ fanSem = SemaphoreLimit)
    /\ <>(fanPhase = "returned")

\* dns_discovery has returned on a wordlist longer than the permits.
C20_Witness ==
    /\ fanPhase = "returned"
    /\ fanSize > SemaphoreLimit
    /\ fanDone = fanSize
    /\ fanSem = SemaphoreLimit

----------------------------------------------------------------------------
(* dns_discovery called by requests that the process serves concurrently.   *)
(* subdomain_service is one object, each call of dns_discovery creates its  *)
(* own semaphore. On the one event loop the tasks that asyncio.gather       *)
(* starts run in turn up to their first suspension: a task that finds a     *)
(* free permit takes it without suspending and suspends in dns_lookup.      *)

Requesters == {"r1", "r2"}

NoCall == [state |-> "none", pending |-> 0, inflight |-> 0, sem |-> 0]

RECURSIVE EnterWhilePermits(_)
\* The tasks of one call enter "async with semaphore" one after another as
\* long as a permit is free
EnterWhilePermits(c) ==
    IF c.pending > 0 /\ SemaphoreCanAcquire(c.sem)
    THEN EnterWhilePermits([c EXCEPT !.pending = @ - 1, !.inflight = @ + 1, !.sem = @ - 1])
    ELSE c

InitShared ==
    /\ ValidatorIdle
    /\ fanSize \in 0..MaxWordlist
    /\ fanPending = 0
    /\ fanInflight = 0
    /\ fanDone = 0
    /\ fanSem = 0
    /\ fanPhase = "idle"
    /\ dnsCalls = [r \in Requesters |-> NoCall]
    /\ RequestIdle
    /\ CallIdle

\* Request r reaches dns_discovery: a new Semaphore(50), one task per
\* wordlist entry, and the gather starts them
SharedStart(r) ==
    /\ dnsCalls[r].state = "none"
    /\ dnsCalls' = [dnsCalls EXCEPT ![r] =
                       EnterWhilePermits([state |-> "gathering", pending |-> fanSize,
                                          inflight |-> 0, sem |-> SemaphoreLimit])]
    /\ UNCHANGED <<fanSize, fanPending, fanInflight, fanDone, fanSem, fanPhase,
                   validatorVars, reqVars, callVars>>

\* A task of call r that waited for a permit is woken up and takes it
SharedAcquire(r) ==
    /\ dnsCalls[r].state = "gathering"
    /\ dnsCalls[r].pending > 0
    /\ SemaphoreCanAcquire(dnsCalls[r].sem)
    /\ dnsCalls' = [dnsCalls EXCEPT ![r].pending = @ - 1, ![r].inflight = @ + 1,
                                     ![r].sem = @ - 1]
    /\ UNCHANGED <<fanSize, fanPending, fanInflight, fanDone, fanSem, fanPhase,
                   validatorVars, reqVars, callVars>>

\* A probe of call r ends and releases its permit
SharedRelease(r) ==
    /\ dnsCalls[r].state = "gathering"
    /\ dnsCalls[r].inflight > 0
    /\ dnsCalls' = [dnsCalls EXCEPT ![r].inflight = @ - 1, ![r].sem = @ + 1]
    /\ UNCHANGED <<fanSize, fanPending, fanInflight, fanDone, fanSem, fanPhase,
                   validatorVars, reqVars, callVars>>

\* The gather of call r returns and dns_discovery returns
SharedGathered(r) ==
    /\ dnsCalls[r].state = "gathering"
    /\ dnsCalls[r].pending = 0
    /\ dnsCalls[r].inflight = 0
    /\ dnsCalls' = [dnsCalls EXCEPT ![r].state = "returned"]
    /\ UNCHANGED <<fanSize, fanPending, fanInflight, fanDone, fanSem, fanPhase,
                   validatorVars, reqVars, callVars>>

NextShared ==
    \/ \E r \in Requesters : SharedStart(r)
    \/ \E r \in Requesters : SharedAcquire(r)
    \/ \E r \in Requesters : SharedRelease(r)
    \/ \E r \in Requesters : SharedGathered(r)

SpecShared == InitShared /\ [][NextShared]_vars

RECURSIVE InflightOf(_)
\* The probes in flight over a set of requests
InflightOf(rs) ==
    IF rs = {} THEN 0
    ELSE LET r == CHOOSE x \in rs : TRUE
         IN  dnsCalls[r].inflight + InflightOf(rs \ {r})

\* C18 as claimed: counted over all requests the process serves concurrently,
\* the DNS probes in flight are at most 50 at any time.
C18_ProcessWideBound == InflightOf(Requesters) <= 50

\* C18 as amended: the limiter bounds each call of dns_discovery on its own:
\* every call has at most 50 probes in flight, each holding a permit of that
\* call's semaphore, and over the requests served concurrently the probes in
\* flight are at most 50 times the number of calls in progress.
C18_PerCallBound ==
    LET gathering == {r \in Requesters : dnsCalls[r].state = "gathering"}
    IN  /\ \A r \in Requesters : dnsCalls[r].inflight <= 50
        /\ \A r \in gathering : dnsCalls[r].inflight + dnsCalls[r].sem = 50
        /\ InflightOf(Requesters) <= 50 * Cardinality(gathering)

\* Two requests are served at once: one call is at its limit with tasks
\* waiting, and more than 50 probes are in flight in the process.
C18_Witness ==
    /\ \E r \in Requesters :
          /\ dnsCalls[r].inflight = 50
          /\ dnsCalls[r].pending > 0
    /\ InflightOf(Requesters) > 50

----------------------------------------------------------------------------
(* POST /discover: one request through validation, the orchestrator         *)
(* discover_subdomains and the adapters it awaits.                          *)

MaxMethods == 2

MaxItems == 2

SeqsUpTo(S, n) == UNION {[1..k -> S] : k \in 0..n}

\* Request bodies: a valid name (in upper case) and a malformed one; methods
\* omitted (given = FALSE), null or [] (<<>>), or a list of names
RequestDomains == {"A.b", "-a.b"}

MethodNames == Methods \cup {"bogus"}

Requests ==
    {[domain |-> d, given |-> FALSE, methods |-> <<>>] : d \in RequestDomains}
    \cup {[domain |-> d, given |-> TRUE, methods |-> ms] :
              d \in RequestDomains, ms \in SeqsUpTo(MethodNames, MaxMethods)}

\* What the external sources may answer for the domain a.b
JsonItems ==
    {JStr("www.a.b"), JStr("*.a.b"), JStr("a.b"), JStr("e.c"), JStr(""), JArray}

HtLines == {"www.a.b,1", "*.a.b,2", "a.b,3", "e.c,4", "www.a.b"}

CertRecords ==
    { [t |-> "object", v |-> "www.a.b\nmail.a.b"],
      [t |-> "object", v |-> "*.a.b\na.b"],
      [t |-> "object", v |-> " WWW.A.B "],
      [t |-> "object", v |-> "e.c\nxa.b"],
      JArray }

RECURSIVE JoinLines(_)
JoinLines(ls) == IF ls = <<>> THEN "" ELSE Head(ls) \o "\n" \o JoinLines(Tail(ls))

HttpFailures ==
    {Answer("transport_error", "", <<>>), Answer("bad_status", "", <<>>),
     Answer("unparseable", "", <<>>)}

Answers(m) ==
    HttpFailures \cup
    CASE m = "crt" ->
           {Answer("json", "", it) : it \in SeqsUpTo(CertRecords, MaxItems)}
      [] m = "hackertarget" ->
           {Answer("text", JoinLines(ls), <<>>) : ls \in SeqsUpTo(HtLines, MaxItems)}
      [] OTHER ->
           {Answer("json_not_object", "", <<>>)} \cup
           {Answer("json", "", it) : it \in SeqsUpTo(JsonItems, MaxItems)}

\* The three adapters that issue a single GET
HttpApis == {"hackertarget", "threatcrowd", "virustotal"}

\* The adapter of an HTTP API method on the answer to its GET
ApiAdapter(m, d, a) ==
    CASE m = "hackertarget" -> hackertarget_discovery(d, a)
      [] m = "threatcrowd" -> threatcrowd_discovery(d, a)
      [] m = "virustotal" -> virustotal_discovery(d, a)

\* urls of certificate_transparency_discovery: the wildcard and the exact query
CrtUrlCount == 2

\* The order in which discover_subdomains appends the tasks
TaskOrder == <<"dns", "crt", "hackertarget", "threatcrowd", "virustotal">>

\* Faulty variant: the chain lacks its last "if"
BuildTasksSkipsLast(ms) ==
    SelectSeq(TaskOrder, LAMBDA m : m \in Range(ms) /\ m # "virustotal")

\* tasks, as built by the "if ... in methods" chain
BuildTasks(ms) == SelectSeq(TaskOrder, LAMBDA m : m \in Range(ms))

\* Faulty variant: the merge keeps only the latest method's results
MergeResultsOverwrites(all, method_results) == method_results

\* all_subdomains.update(method_results)
MergeResults(all, method_results) == all \cup method_results

RECURSIVE SumLen(_, _)
SumLen(rbm, ms) ==
    IF ms = {} THEN 0
    ELSE LET m == CHOOSE x \in ms : TRUE
         IN  Len(rbm[m]) + SumLen(rbm, ms \ {m})

\* Faulty variant: total_found counts the entries of every method, duplicates included
BuildReportCountsEntries(dom, all, ms, rbm) ==
    [domain |-> dom,
     subdomains |-> SortedList(all),
     total_found |-> SumLen(rbm, DOMAIN rbm),
     methods_used |-> ms,
     results_by_method |-> rbm]

\* SubdomainResponse(...) as the endpoint builds it
BuildReport(dom, all, ms, rbm) ==
    [domain |-> dom,
     subdomains |-> SortedList(all),
     total_found |-> Cardinality(all),
     methods_used |-> ms,
     results_by_method |-> rbm]

\* Faulty variant: the loop over tasks is left after its first pass
LoopExhaustedEarly(i, ts) == i > 1

\* "for method_name, task in tasks" has no task left
LoopExhausted(i, ts) == i > Len(ts)

Current == tasks[idx]

Running == phase = "running" /\ idx <= Len(tasks)

InitRequest ==
    /\ ValidatorIdle
    /\ FanIdle
    /\ req \in Requests
    /\ phase = "received"
    /\ RequestFresh
    /\ CallIdle

\* FastAPI builds the DomainRequest: both field validators run (an omitted
\* methods field takes the default without validation)
ValidateRequest ==
    /\ phase = "received"
    /\ LET d == validate_domain(req.domain)
           ms == IF req.given THEN validate_methods(req.methods)
                 ELSE [ok |-> TRUE, value |-> DefaultMethods]
       IN  IF d.ok /\ ms.ok
           THEN /\ phase' = "validated"
                /\ domain' = d.value
                /\ methods' = ms.value
           ELSE /\ phase' = "rejected"
                /\ UNCHANGED <<domain, methods>>
    /\ UNCHANGED <<req, tasks, idx, astatus, probe, presults, sem, crtUrl, found,
                   araised, areturned, getFailed, results_by_method, all_subdomains,
                   report, ioCalls, validatorVars, fanVars, callVars, poutcome, porder>>

\* The endpoint calls discover_subdomains, which creates one coroutine per
\* selected method; none of them runs yet
Dispatch ==
    /\ phase = "validated"
    /\ phase' = "running"
    /\ tasks' = BuildTasks(methods)
    /\ idx' = 1
    /\ astatus' = [m \in Methods |-> IF m \in Range(tasks') THEN "created" ELSE "none"]
    /\ results_by_method' = <<>>
    /\ all_subdomains' = {}
    /\ UNCHANGED <<req, domain, methods, probe, presults, sem, crtUrl, found,
                   araised, areturned, getFailed, report, ioCalls,
                   validatorVars, fanVars, callVars, poutcome, porder>>

\* "method_results = await task": the coroutine of the current method starts.
\* dns_discovery creates its semaphore and gathers one task per wordlist entry;
\* the HTTP adapters issue their (first) GET.
AwaitTask ==
    /\ Running
    /\ astatus[Current] = "created"
    /\ astatus' = [astatus EXCEPT ![Current] = "inflight"]
    /\ found' = {}
    /\ IF Current = "dns"
       THEN /\ probe' = [i \in DOMAIN probe |-> "created"]
            /\ sem' = SemaphoreLimit
            /\ UNCHANGED <<crtUrl, ioCalls>>
       ELSE /\ crtUrl' = IF Current = "crt" THEN 1 ELSE 0
            /\ ioCalls' = ioCalls + 1
            /\ UNCHANGED <<probe, sem>>
    /\ UNCHANGED <<req, phase, domain, methods, tasks, idx, presults, araised,
                   areturned, getFailed, results_by_method, all_subdomains, report,
                   validatorVars, fanVars, callVars, poutcome, porder>>

\* check_subdomain(common_subdomains[i]) enters "async with semaphore" and
\* hands socket.gethostbyname to the executor
ProbeAcquire(i) ==
    /\ Running
    /\ astatus["dns"] = "inflight"
    /\ probe[i] = "created"
    /\ SemaphoreCanAcquire(sem)
    /\ sem' = sem - 1
    /\ probe' = [probe EXCEPT ![i] = "inflight"]
    /\ ioCalls' = ioCalls + 1
    /\ UNCHANGED <<req, phase, domain, methods, tasks, idx, astatus, presults,
                   crtUrl, found, araised, areturned, getFailed, results_by_method,
                   all_subdomains, report, validatorVars, fanVars, callVars, poutcome, porder>>

DnsOutcomes == {"resolved", "gaierror", "exception"}

\* The resolver call of entry i ends; dns_lookup returns, check_subdomain
\* leaves "async with semaphore" and returns
ProbeFinish(i, outcome) ==
    /\ Running
    /\ probe[i] = "inflight"
    /\ probe' = [probe EXCEPT ![i] = "done"]
    /\ presults' = [presults EXCEPT ![i] = check_subdomain(common_subdomains[i], domain, outcome)]
    /\ poutcome' = [poutcome EXCEPT ![i] = outcome]
    /\ porder' = Append(porder, i)
    /\ sem' = sem + 1
    /\ UNCHANGED <<req, phase, domain, methods, tasks, idx, astatus, crtUrl,
                   found, araised, areturned, getFailed, results_by_method,
                   all_subdomains, report, ioCalls, validatorVars, fanVars, callVars>>

\* asyncio.gather returns; dns_discovery collects the results and returns
GatherDone ==
    /\ Running
    /\ astatus["dns"] = "inflight"
    /\ \A i \in DOMAIN probe : probe[i] = "done"
    /\ found' = dns_collect(presults)
    /\ araised' = FALSE
    /\ areturned' = [areturned EXCEPT !["dns"] = found']
    /\ astatus' = [astatus EXCEPT !["dns"] = "finished"]
    /\ UNCHANGED <<req, phase, domain, methods, tasks, idx, probe, presults, sem,
                   crtUrl, getFailed, results_by_method, all_subdomains, report,
                   ioCalls, validatorVars, fanVars, callVars, poutcome, porder>>

\* The GET in flight ends with answer a and the running adapter processes it:
\* a single-GET adapter returns; certificate_transparency_discovery goes on
\* to its next url, and returns after the last
HttpRespond(a) ==
    /\ Running
    /\ Current # "dns"
    /\ astatus[Current] = "inflight"
    /\ getFailed' = [getFailed EXCEPT ![Current] =
                        @ + (IF a.kind \in FailureKinds THEN 1 ELSE 0)]
    /\ IF Current = "crt"
       THEN /\ found' = crt_variant(domain, a, found)
            /\ IF crtUrl < CrtUrlCount
               THEN /\ crtUrl' = crtUrl + 1
                    /\ ioCalls' = ioCalls + 1
                    /\ UNCHANGED <<astatus, araised, areturned>>
               ELSE /\ astatus' = [astatus EXCEPT !["crt"] = "finished"]
                    /\ araised' = FALSE
                    /\ areturned' = [areturned EXCEPT !["crt"] = found']
                    /\ UNCHANGED <<crtUrl, ioCalls>>
       ELSE LET r == ApiAdapter(Current, domain, a)
            IN  /\ found' = r.found
                /\ araised' = r.raised
                /\ areturned' = [areturned EXCEPT ![Current] = r.found]
                /\ astatus' = [astatus EXCEPT ![Current] = "finished"]
                /\ UNCHANGED <<crtUrl, ioCalls>>
    /\ UNCHANGED <<req, phase, domain, methods, tasks, idx, probe, presults, sem,
                   results_by_method, all_subdomains, report, validatorVars, fanVars,
                   callVars, poutcome, porder>>

\* The external source answers the GET in flight, or the GET fails
HttpAnswered == Running /\ \E a \in Answers(Current) : HttpRespond(a)

\* The aiohttp.ClientTimeout of the GET in flight fires
HttpTimeout == HttpRespond(Answer("timeout", "", <<>>))

\* The body of "for method_name, task in tasks" after the await: the try
\* branch on a returned set, the except branch on an exception
RecordResult ==
    /\ Running
    /\ astatus[Current] = "finished"
    /\ IF araised
       THEN /\ results_by_method' = (Current :> <<>>) @@ results_by_method
            /\ UNCHANGED all_subdomains
       ELSE /\ results_by_method' = (Current :> SortedList(found)) @@ results_by_method
            /\ all_subdomains' = MergeResults(all_subdomains, found)
    /\ astatus' = [astatus EXCEPT ![Current] = "recorded"]
    /\ idx' = idx + 1
    /\ found' = {}
    /\ crtUrl' = 0
    /\ araised' = FALSE
    /\ poutcome' = [i \in DOMAIN poutcome |-> "none"]
    /\ porder' = <<>>
    /\ UNCHANGED <<req, phase, domain, methods, tasks, probe, presults, sem, areturned,
                   getFailed, report, ioCalls, validatorVars, fanVars, callVars>>

\* discover_subdomains returns and the endpoint builds the SubdomainResponse
Return ==
    /\ phase = "running"
    /\ LoopExhausted(idx, tasks)
    /\ report' = BuildReport(domain, all_subdomains, methods, results_by_method)
    /\ phase' = "returned"
    /\ UNCHANGED <<req, domain, methods, tasks, idx, astatus, probe, presults, sem,
                   crtUrl, found, araised, areturned, getFailed, results_by_method,
                   all_subdomains, ioCalls, validatorVars, fanVars, callVars, poutcome, porder>>

Next ==
    \/ ValidateRequest
    \/ Dispatch
    \/ AwaitTask
    \/ \E i \in 1..Len(common_subdomains) : ProbeAcquire(i)
    \/ \E i \in 1..Len(common_subdomains), o \in DnsOutcomes : ProbeFinish(i, o)
    \/ GatherDone
    \/ HttpAnswered
    \/ HttpTimeout
    \/ RecordResult
    \/ Return

Spec == InitRequest /\ [][Next]_vars

\* What the event loop, the executor and the timers guarantee: every step of
\* the program that is ready is taken, and a GET in flight ends at the latest
\* by its ClientTimeout. Nothing bounds socket.gethostbyname or makes an
\* external source answer.
Fairness ==
    /\ WF_vars(ValidateRequest)
    /\ WF_vars(Dispatch)
    /\ WF_vars(AwaitTask)
    /\ \A i \in 1..Len(common_subdomains) : WF_vars(ProbeAcquire(i))
    /\ WF_vars(GatherDone)
    /\ WF_vars(HttpTimeout)
    /\ WF_vars(RecordResult)
    /\ WF_vars(Return)

FairSpec == InitRequest /\ [][Next]_vars /\ Fairness

----------------------------------------------------------------------------
(* The HTTP adapters as functions of what their source answers *)

TimeoutAnswer == Answer("timeout", "", <<>>)

AnswersOrTimeout(m) == Answers(m) \cup {TimeoutAnswer}

AdapterCalls ==
    UNION {{[method |-> m, domain |-> "a.b", answers |-> <<a>>] :
               a \in AnswersOrTimeout(m)} : m \in HttpApis}
    \cup {[method |-> "crt", domain |-> "a.b", answers |-> <<a1, a2>>] :
              a1 \in AnswersOrTimeout("crt"), a2 \in AnswersOrTimeout("crt")}

\* The adapter of an HTTP method on the answers to its GETs
Adapter(m, d, answers) ==
    IF m = "crt" THEN certificate_transparency_discovery(d, answers)
    ELSE ApiAdapter(m, d, answers[1])

InitAdapter ==
    /\ ValidatorIdle
    /\ FanIdle
    /\ RequestIdle
    /\ call \in AdapterCalls
    /\ cstate = "called"
    /\ cresult = Returned({})

\* The adapter runs to its return on the answers it gets
AdapterCall ==
    /\ cstate = "called"
    /\ cresult' = Adapter(call.method, call.domain, call.answers)
    /\ cstate' = "returned"
    /\ UNCHANGED <<call, validatorVars, fanVars, reqVars>>

NextAdapter == AdapterCall

SpecAdapter == InitAdapter /\ [][NextAdapter]_vars

----------------------------------------------------------------------------
(* Properties of the orchestrator and the request *)

Selected == Range(tasks)

\* C2: the adapters of distinct selected methods are dispatched concurrently:
\* no selected adapter has to wait for another selected adapter to finish
\* before it starts, so none is still unstarted once another has finished.
C2_AdaptersRunConcurrently ==
    \A m1 \in Selected, m2 \in Selected :
        astatus[m1] \in {"finished", "recorded"} => astatus[m2] # "created"

\* The methods whose adapter failed: every GET it issued ended in a failure
FailedMethods ==
    {m \in Selected \ {"dns"} :
        getFailed[m] = (IF m = "crt" THEN CrtUrlCount ELSE 1)}

C4_EveryRequestReturns == (phase = "validated") ~> (phase = "returned")

\* With the DNS adapter left out, every valid request does return: each GET
\* ends by its timeout.
C4_ReturnsWithoutDns ==
    (phase = "validated" /\ "dns" \notin Range(methods)) ~> (phase = "returned")

\* s is in strictly ascending str order: sorted and free of duplicates
StrictlySorted(s) == \A i \in 1..Len(s), j \in 1..Len(s) : i < j => StrLess(s[i], s[j])

\* C5: in every returned report, subdomains is the sorted, duplicate-free
\* union of the lists of results_by_method, and total_found is its length.
C5_ReportIsUnion ==
    phase = "returned" =>
        /\ StrictlySorted(report.subdomains)
        /\ Range(report.subdomains) =
              UNION {Range(report.results_by_method[m]) : m \in DOMAIN report.results_by_method}
        /\ report.total_found = Len(report.subdomains)

\* A report in which two methods found the same subdomain and one of them
\* found another one besides.
C5_Witness ==
    /\ phase = "returned"
    /\ \E m1 \in Selected, m2 \in Selected :
          /\ m1 # m2
          /\ areturned[m1] \cap areturned[m2] # {}
          /\ areturned[m1] # areturned[m2]

\* C6: no entry of any method's result equals the input domain or contains
\* the wildcard character.
C6_NoDomainNoWildcard ==
    \A m \in DOMAIN results_by_method :
        \A i \in 1..Len(results_by_method[m]) :
            /\ results_by_method[m][i] # domain
            /\ ~Contains(results_by_method[m][i], "*")

\* C7: every entry of results_by_method and of report.subdomains ends with
\* "." followed by the request's domain.
C7_EndsWithDomain ==
    /\ \A m \in DOMAIN results_by_method :
          \A i \in 1..Len(results_by_method[m]) :
              EndsWith(results_by_method[m][i], "." \o domain)
    /\ \A i \in 1..Len(report.subdomains) :
          EndsWith(report.subdomains[i], "." \o domain)

\* The request names a method outside the catalog
NamesUnknownMethod ==
    /\ req.given
    /\ \E i \in 1..Len(req.methods) :
          req.methods[i] \notin {"dns", "crt", "hackertarget", "threatcrowd", "virustotal"}

\* C8: a request that names a method outside the catalog is rejected before
\* any work begins: it never gets past validation, no adapter is dispatched
\* and no DNS or HTTP call is issued for it.
C8_UnknownMethodRejected ==
    NamesUnknownMethod =>
        /\ phase \in {"received", "rejected"}
        /\ tasks = <<>>
        /\ \A m \in Methods : astatus[m] = "none"
        /\ ioCalls = 0

\* A rejected request with a valid domain whose list names a known method
\* before the unknown one.
C8_Witness ==
    /\ phase = "rejected"
    /\ validate_domain(req.domain).ok
    /\ req.methods = <<"dns", "bogus">>

\* The request specifies no methods: the field is omitted, null or []
NoMethodsGiven == ~req.given \/ req.methods = <<>>

\* C16: when a request specifies no methods, exactly the adapters of "dns"
\* and "crt" are run, no other adapter is dispatched, and methods_used is
\* ["dns", "crt"].
C16_DefaultMethods ==
    NoMethodsGiven =>
        /\ \A m \in Methods \ {"dns", "crt"} : astatus[m] = "none"
        /\ phase \in {"running", "returned"} => Selected = {"dns", "crt"}
        /\ phase = "returned" =>
              /\ report.methods_used = <<"dns", "crt">>
              /\ astatus["dns"] = "recorded"
              /\ astatus["crt"] = "recorded"

\* A returned report of a request whose methods field was null or [].
C16_Witness ==
    /\ phase = "returned"
    /\ req.given
    /\ req.methods = <<>>
    /\ DOMAIN report.results_by_method = {"dns", "crt"}

\* C19: when discover_subdomains returns, the keys of results_by_method are
\* exactly the distinct method names of the request: one entry per selected
\* method, also when its adapter failed, and none for an unselected method.
C19_KeysAreMethods ==
    (phase = "returned" \/ (phase = "running" /\ LoopExhausted(idx, tasks))) =>
        /\ DOMAIN results_by_method = Range(methods)
        /\ ~NoMethodsGiven => DOMAIN results_by_method = Range(req.methods)

\* A request that names the same method twice, whose adapter failed, has
\* the one entry of that method.
C19_Witness ==
    /\ phase = "returned"
    /\ req.methods = <<"crt", "crt">>
    /\ "crt" \in FailedMethods
    /\ DOMAIN results_by_method = {"crt"}

----------------------------------------------------------------------------
(* Properties of dns_discovery within a request *)

\* dns_discovery has returned and its result is not yet recorded
DnsReturned == astatus["dns"] = "finished"

\* The wordlist positions whose probe resolved
ResolvedLabels == {i \in DOMAIN poutcome : poutcome[i] = "resolved"}

\* C11: whatever the probes' outcomes (resolves, no such name, resolution
\* failure, exception), dns_discovery returns normally and its result is
\* exactly the set of "{label}.{domain}" of the labels whose probe resolved;
\* the bare domain is never in it.
C11_DnsResultExact ==
    /\ DnsReturned =>
        /\ \A i \in DOMAIN poutcome : poutcome[i] \in DnsOutcomes
        /\ areturned["dns"] =
              {common_subdomains[i] \o "." \o domain : i \in ResolvedLabels}
        /\ domain \notin areturned["dns"]
    /\ "dns" \in DOMAIN results_by_method =>
          Range(results_by_method["dns"]) = areturned["dns"]

\* One label resolved although the probe of another label ended in an
\* exception and dns_discovery has returned.
C11_Witness ==
    /\ DnsReturned
    /\ poutcome[1] = "exception"
    /\ poutcome[2] = "resolved"
    /\ areturned["dns"] = {"mail.a.b"}

\* C12: no successful probe's insert is lost and the completion order of the
\* probes does not matter: while the probes run, each finished probe's slot
\* holds its own result whatever ended before or after it, and the returned
\* set has one element per resolved label, in every interleaving.
C12_OrderIndependent ==
    /\ \A i \in DOMAIN probe :
          (astatus["dns"] \in {"inflight", "finished"} /\ probe[i] = "done") =>
              presults[i] = (IF poutcome[i] = "resolved"
                             THEN common_subdomains[i] \o "." \o domain ELSE "")
    /\ DnsReturned =>
          /\ \A i \in ResolvedLabels :
                common_subdomains[i] \o "." \o domain \in areturned["dns"]
          /\ Cardinality(areturned["dns"]) = Cardinality(ResolvedLabels)

\* Both probes resolved and the second wordlist entry's probe ended first.
C12_Witness ==
    /\ DnsReturned
    /\ porder = <<2, 1>>
    /\ ResolvedLabels = {1, 2}
    /\ areturned["dns"] = {"www.a.b", "mail.a.b"}

\* C13: no partial result is delivered: nothing is returned to the caller
\* while a dispatched adapter has not completed, and a returned report comes
\* after every dispatched adapter has completed and been recorded.
C13_NoPartialResult ==
    /\ phase # "returned" => report = NoReport
    /\ phase = "returned" =>
          /\ \A m \in Selected : astatus[m] = "recorded"
          /\ DOMAIN report.results_by_method = Selected
          /\ \A m \in Selected : areturned[m] \subseteq Range(report.subdomains)

\* A report of a request with two dispatched adapters, the second of which
\* contributed a subdomain.
C13_Witness ==
    /\ phase = "returned"
    /\ Len(tasks) = 2
    /\ areturned[tasks[2]] # {}
    /\ report.total_found > 0

----------------------------------------------------------------------------
(* Properties of the single-GET adapters *)

\* The answer is a failure of the GET or of parsing the body as a whole
WholeAnswerFails(a) == a.kind \in FailureKinds \cup {"json_not_object"}

\* The positions of the parsed entries on which processing raises
BadEntries(a) == {i \in 1..Len(a.items) : a.items[i].t # "str"}

----------------------------------------------------------------------------
(* Properties of certificate_transparency_discovery *)

CrtCallReturned == cstate = "returned" /\ call.method = "crt"

\* The answer is a parsed list all of whose records are objects
WellFormed(a) == a.kind = "json" /\ \A i \in 1..Len(a.items) : a.items[i].t = "object"

\* The names of a sequence of certificate records: every line of every
\* name_value, trimmed and lowercased
RecordNames(records) ==
    UNION { LET lines == Split(records[i].v, "\n")
            IN  {Lower(Strip(lines[j])) : j \in 1..Len(lines)}
          : i \in 1..Len(records) }

\* The inclusion rule: ends with ".{domain}", no wildcard, not the domain
\* itself, at least two dot-separated labels
Includable(n, dom) ==
    /\ Len(n) > Len(dom)
    /\ SubSeq(n, Len(n) - Len(dom), Len(n)) = "." \o dom
    /\ \A i \in 1..Len(n) : SubSeq(n, i, i) # "*"
    /\ n # dom
    /\ Cardinality({i \in 1..Len(n) : SubSeq(n, i, i) = "."}) >= 1

\* C14: on well-formed answers, certificate_transparency_discovery returns a
\* name of a record's newline-separated name_value, lowercased and trimmed, if
\* and only if it ends with ".{domain}", has no "*", is not the domain and
\* has at least two dot-separated labels.
C14_CrtFilter ==
    (/\ CrtCallReturned
     /\ \A k \in 1..CrtUrlCount :
           call.answers[k].kind = "json" => WellFormed(call.answers[k]))
    => LET names == UNION {RecordNames(call.answers[k].items) : k \in 1..CrtUrlCount}
       IN  cresult.found = {n \in names : Includable(n, call.domain)}

\* The two records "www.a.b\nmail.a.b" and "*.a.b\na.b" give exactly the
\* two subdomains.
C14_Witness ==
    /\ CrtCallReturned
    /\ call.answers[1] =
          Answer("json", "", << [t |-> "object", v |-> "www.a.b\nmail.a.b"],
                               [t |-> "object", v |-> "*.a.b\na.b"] >>)
    /\ call.answers[2].kind = "json"
    /\ call.answers[2].items = <<>>
    /\ cresult.found = {"www.a.b", "mail.a.b"}

\* The query variant got a non-success status, raised, or its body could not
\* be parsed
VariantFails(a) == a.kind \in {"transport_error", "timeout", "bad_status", "unparseable"}

\* The positions of the records on which processing raises
BadRecords(a) == {i \in 1..Len(a.items) : a.items[i].t # "object"}

\* The names the filter lets through from a sequence of records
IncludedNames(records, dom) == {n \in RecordNames(records) : Includable(n, dom)}

====
